---- MODULE Spec2Model ----
(***************************************************************************)
(* Model of VenuePipelineWorkflow (src/temporal/workflows/venue_pipeline.py) *)
(* together with the storage activities it schedules                        *)
(* (src/temporal/activities/storage_activities.py).                         *)
(*                                                                          *)
(* One workflow instance executes run() once.  Every `await` of an activity *)
(* is a position (wf.pc) of the workflow; the activity returning or failing *)
(* (after its retry policy is exhausted) is one action that also executes   *)
(* the workflow code up to the next await.  The cancel_pipeline signal may  *)
(* arrive between any two such steps.  Amounts of money are in units of     *)
(* 0.001 USD.  Seat ids are the numbers 1..MaxSeats.                         *)
(*                                                                          *)
(* generate_seats (src/modal_app.py), the function behind                   *)
(* generate_seats_activity, is modelled on its own on the section mappings  *)
(* of up to MaxSections sections (SeatSpec).                                 *)
(*                                                                          *)
(* RetrySpec follows the calls made under BLENDER_RETRY and                 *)
(* AI_GENERATION_RETRY attempt by attempt.  ApiSpec is the start endpoint   *)
(* (src/api/routes/pipelines.py) up to the first activity of the run.       *)
(***************************************************************************)
EXTENDS Integers, Sequences, FiniteSets, TLC

\* ----- bounds of the model -----
MaxSeats == 2
MaxBatch == 2
MaxSections == 3
MaxRows == 2

\* ----- maximum_attempts of BLENDER_RETRY and of AI_GENERATION_RETRY -----
MAX_ATTEMPTS_BLENDER == 3
MAX_ATTEMPTS_AI == 5

\* ----- defaults of VenuePipelineInput (types.py) -----
DEFAULT_parallel_image_batch_size == 5
DEFAULT_depth_batch_size == 10

\* ----- COST_ESTIMATES (types.py), in units of 0.001 USD -----
COST_seats == 1
COST_blender_build == 50
COST_depth_render_per_seat == 20
COST_flux_per_image == 35
COST_sdxl_per_image == 15
COST_controlnet_per_image == 8
COST_ip_adapter_per_image == 20
COST_default_per_image == 20

VARIABLES
    input,          \* VenuePipelineInput: immutable snapshot given to run()
    configured,     \* SUPABASE_URL and SUPABASE_KEY are set for the activity worker
    store,          \* artifacts persisted in the object store and on local disk
    should_cancel,  \* self._should_cancel
    wf,             \* self._progress, the locals of run() and of
                    \* _generate_images_parallel(), the position, the result
    cancelInBatch,  \* history: the cancel signal first arrived with synthesis calls in flight
    failedAt,       \* history: position of run() whose activity failed
    sections,       \* generate_seats: its argument, the items of the dict in order
    gs,             \* generate_seats: called, returned (with its three lists) or raised
    attempts,       \* history: per activity call under a retry policy, its failed attempts
    request         \* POST /pipelines: the body received and the position of the endpoint

vars ==
    <<input, configured, store, should_cancel, wf, cancelInBatch, failedAt, sections, gs,
      attempts, request>>

Seats == 1..MaxSeats

\* PipelineStage
PipelineStage == {"PENDING", "GENERATING_SEATS", "BUILDING_MODEL", "RENDERING_DEPTHS",
                  "GENERATING_IMAGES", "COMPLETED", "FAILED", "CANCELLED"}

Models == {"flux"}

\* ----- helpers on sequences, sets and dicts -----
Min(a, b) == IF a < b THEN a ELSE b

Range(s) == {s[i] : i \in 1..Len(s)}

EmptyMap == [x \in {} |-> "local"]

\* dict.update
Merge(f, g) == [x \in (DOMAIN f) \cup (DOMAIN g) |-> IF x \in DOMAIN g THEN g[x] ELSE f[x]]

RECURSIVE SeqOfSet(_)
\* the seat ids of a set, in ascending order (the order seats are generated in)
SeqOfSet(S) ==
    IF S = {} THEN <<>>
    ELSE LET m == CHOOSE x \in S : \A y \in S : x <= y
         IN  <<m>> \o SeqOfSet(S \ {m})

\* seq[start:start + size] of Python, start counted from 0
Slice(seq, start, size) == SubSeq(seq, start + 1, Min(start + size, Len(seq)))

\* ----- PipelineProgress(), PipelineResult -----
InitProgress ==
    [stage |-> "PENDING", current_step |-> 0, seats_generated |-> 0,
     depth_maps_rendered |-> 0, images_generated |-> 0, failed_items |-> <<>>,
     actual_cost |-> 0]

NoCost == [seats |-> 0, model_build |-> 0, depth_rendering |-> 0, image_generation |-> 0]

NoResult ==
    [success |-> FALSE, all_seats_count |-> 0, anchor_seats_count |-> 0,
     depth_maps_rendered |-> 0, depth_map_paths |-> EmptyMap,
     images_generated |-> 0, image_paths |-> EmptyMap, failed_seats |-> <<>>,
     total_cost |-> 0, cost_breakdown |-> NoCost, error_message |-> "none"]

NoCalls == [seats |-> 0, build |-> 0, render |-> 0, synth |-> 0]

InitWf ==
    [pc |-> "start",
     progress |-> InitProgress,
     cost_breakdown |-> NoCost,
     all_seats |-> <<>>, anchor_seats |-> <<>>,
     blend_file_b64 |-> FALSE,
     all_depth_maps |-> {}, depth_paths |-> EmptyMap, image_paths |-> EmptyMap,
     seats_to_render |-> <<>>, batch_idx |-> 0,
     generated |-> EmptyMap, seat_ids |-> <<>>, batch_start |-> 0,
     tasks |-> <<>>, next_task |-> 1, batch_images |-> {},
     result |-> NoResult,
     calls |-> NoCalls]

\* ----- results (venue_pipeline.py, _make_result, _make_cancelled_result, except) -----
MakeResult(s, depth_paths, image_paths) ==
    [success |-> TRUE,
     all_seats_count |-> Len(s.all_seats),
     anchor_seats_count |-> Len(s.anchor_seats),
     depth_maps_rendered |-> Cardinality(DOMAIN depth_paths),
     depth_map_paths |-> depth_paths,
     images_generated |-> Cardinality(DOMAIN image_paths),
     image_paths |-> image_paths,
     failed_seats |-> s.progress.failed_items,
     total_cost |-> s.progress.actual_cost,
     cost_breakdown |-> s.cost_breakdown,
     error_message |-> "none"]

\* mutant: the cancelled result is built like the successful one
MakeCancelledResultAsSuccess(s) ==
    [success |-> TRUE,
     all_seats_count |-> s.progress.seats_generated,
     anchor_seats_count |-> 0,
     depth_maps_rendered |-> s.progress.depth_maps_rendered,
     depth_map_paths |-> EmptyMap,
     images_generated |-> s.progress.images_generated,
     image_paths |-> EmptyMap,
     failed_seats |-> <<>>,
     total_cost |-> s.progress.actual_cost,
     cost_breakdown |-> s.cost_breakdown,
     error_message |-> "none"]

MakeCancelledResult(s) ==
    [success |-> FALSE,
     all_seats_count |-> s.progress.seats_generated,
     anchor_seats_count |-> 0,
     depth_maps_rendered |-> s.progress.depth_maps_rendered,
     depth_map_paths |-> EmptyMap,
     images_generated |-> s.progress.images_generated,
     image_paths |-> EmptyMap,
     failed_seats |-> <<>>,
     total_cost |-> s.progress.actual_cost,
     cost_breakdown |-> s.cost_breakdown,
     error_message |-> "Cancelled by user"]

FailedResult(s) ==
    [success |-> FALSE,
     all_seats_count |-> s.progress.seats_generated,
     anchor_seats_count |-> Len(s.anchor_seats),
     depth_maps_rendered |-> s.progress.depth_maps_rendered,
     depth_map_paths |-> s.depth_paths,
     images_generated |-> s.progress.images_generated,
     image_paths |-> s.image_paths,
     failed_seats |-> s.progress.failed_items,
     total_cost |-> s.progress.actual_cost,
     cost_breakdown |-> s.cost_breakdown,
     error_message |-> "Pipeline failed"]

\* return self._make_cancelled_result(...): the stage of the progress is left as it is
ReturnCancelled(s) == [s EXCEPT !.pc = "done", !.result = MakeCancelledResult(s)]

\* mutant: the exception leaves run() instead of being turned into a result
ExceptionPropagates(s) == [s EXCEPT !.pc = "raised"]

\* mutant: the handler returns the failure result but leaves the stage as it was
ExceptionKeepsStage(s) == [s EXCEPT !.pc = "done", !.result = FailedResult(s)]

\* except Exception: the stage becomes FAILED and a result is returned
ExceptionHandler(s) ==
    LET f == [s EXCEPT !.progress.stage = "FAILED"]
    IN  [f EXCEPT !.pc = "done", !.result = FailedResult(f)]

\* _update_progress(COMPLETED, step); return self._make_result(...)
ReturnCompleted(s, step, depth_paths, image_paths) ==
    LET c == [s EXCEPT !.progress.stage = "COMPLETED", !.progress.current_step = step]
    IN  [c EXCEPT !.pc = "done", !.result = MakeResult(c, depth_paths, image_paths)]

\* ----- run(): the code between two awaits, as functions of the workflow state -----

\* seats_to_render = anchor_seats, or the seats of all_seats named by custom_seats
SeatsToRender(s) ==
    IF input.custom_seats # {}
    THEN SelectSeq(s.all_seats, LAMBDA x : x \in input.custom_seats)
    ELSE s.anchor_seats

\* for batch_idx in range(0, len(seats_to_render), depth_batch_size):
\*     if self._should_cancel: break ... await render_depth_maps_activity
\* after the loop: await save_depth_maps_activity
DepthLoopHead(s) ==
    IF s.batch_idx < Len(s.seats_to_render) /\ ~should_cancel
    THEN [s EXCEPT !.pc = "render_batch", !.calls.render = @ + 1]
    ELSE [s EXCEPT !.pc = "save_depths"]

\* if not all_depth_maps: render new depth maps
EnterRender(s) ==
    LET r == [s EXCEPT !.progress.stage = "RENDERING_DEPTHS", !.progress.current_step = 3]
    IN  DepthLoopHead([r EXCEPT !.seats_to_render = SeatsToRender(r), !.batch_idx = 0])

\* mutant: the stop_after_model check is missing
StopAfterModelIgnored(inp) == FALSE

\* if input.stop_after_model
StopAfterModel(inp) == inp.stop_after_model

\* the code after stage 2: cancel check, stop_after_model, entry of stage 3
AfterModel(s) ==
    IF should_cancel THEN ReturnCancelled(s)
    ELSE IF StopAfterModel(input) THEN ReturnCompleted(s, 2, EmptyMap, EmptyMap)
    ELSE IF input.skip_depth_render
         THEN [s EXCEPT !.progress.stage = "RENDERING_DEPTHS", !.progress.current_step = 3,
                        !.pc = "load_depths"]
         ELSE EnterRender(s)

\* mutant: a missing blend file is an error instead of a reason to build
MissingBlendIsFatal(s) == ExceptionHandler(s)

\* if not blend_file_b64: build a new model
EnterBuild(s) ==
    [s EXCEPT !.progress.stage = "BUILDING_MODEL", !.progress.current_step = 2,
              !.pc = "build_model", !.calls.build = @ + 1]

\* the code after save_seats_json_activity: cancel check, entry of stage 2
AfterSeats(s) ==
    IF should_cancel THEN ReturnCancelled(s)
    ELSE IF input.skip_model_build
         THEN [s EXCEPT !.progress.stage = "BUILDING_MODEL", !.progress.current_step = 2,
                        !.pc = "load_blend"]
         ELSE EnterBuild(s)

\* if self._should_cancel or input.stop_after_depths or input.skip_ai_generation
StopAfterDepths(inp) == should_cancel \/ inp.stop_after_depths \/ inp.skip_ai_generation

\* the code after stage 3: early stop, or entry of stage 4
AfterDepths(s) ==
    IF StopAfterDepths(input) THEN ReturnCompleted(s, 3, s.depth_paths, EmptyMap)
    ELSE [s EXCEPT !.progress.stage = "GENERATING_IMAGES", !.progress.current_step = 4,
                   !.pc = "load_images"]

\* ----- actions: the signal, and stages 1 and 2 -----

\* @workflow.signal cancel_pipeline; a closed workflow accepts no signal
Cancel ==
    /\ wf.pc # "done"
    /\ should_cancel' = TRUE
    /\ cancelInBatch' = IF should_cancel THEN cancelInBatch
                        ELSE \E i \in 1..Len(wf.tasks) : wf.tasks[i].status = "running"
    /\ UNCHANGED <<input, configured, store, wf, failedAt, sections, gs,
                 attempts, request>>

\* run() starts: stage GENERATING_SEATS, generate_seats_activity is scheduled
Start ==
    /\ wf.pc = "start"
    /\ wf' = [wf EXCEPT !.progress.stage = "GENERATING_SEATS", !.progress.current_step = 1,
                        !.pc = "gen_seats", !.calls.seats = @ + 1]
    /\ UNCHANGED <<input, configured, store, should_cancel, cancelInBatch, failedAt, sections, gs,
                 attempts, request>>

\* generate_seats_activity returns (all_seats, sample_seats, anchor_seats): the first
\* n seats are anchors; no section gives no seat at all
GenerateSeatsReturns ==
    /\ wf.pc = "gen_seats"
    /\ \E n \in 0..MaxSeats :
         LET all == IF n = 0 THEN <<>> ELSE SeqOfSet(Seats)
         IN  wf' = [wf EXCEPT !.all_seats = all,
                              !.anchor_seats = SubSeq(all, 1, n),
                              !.cost_breakdown.seats = COST_seats,
                              !.progress.actual_cost = @ + COST_seats,
                              !.progress.seats_generated = Len(all),
                              !.pc = "save_seats"]
    /\ UNCHANGED <<input, configured, store, should_cancel, cancelInBatch, failedAt, sections, gs,
                 attempts, request>>

\* save_seats_json_activity returns
SaveSeatsReturns ==
    /\ wf.pc = "save_seats"
    /\ wf' = AfterSeats(wf)
    /\ UNCHANGED <<input, configured, store, should_cancel, cancelInBatch, failedAt, sections, gs,
                 attempts, request>>

\* load_existing_blend_activity returns the blend file of the object store, or None
\* (not configured, not found, or the download failed)
LoadBlendReturns ==
    /\ wf.pc = "load_blend"
    /\ \E found \in {FALSE, configured /\ store.remote_blend} :
         wf' = IF found THEN AfterModel([wf EXCEPT !.blend_file_b64 = TRUE])
               ELSE EnterBuild(wf)
    /\ UNCHANGED <<input, configured, store, should_cancel, cancelInBatch, failedAt, sections, gs,
                 attempts, request>>

\* mutant: the stop_after_model check comes right after the build, before the save
BuildModelSkipsSave ==
    /\ wf.pc = "build_model"
    /\ wf' = AfterModel([wf EXCEPT !.blend_file_b64 = TRUE,
                                   !.cost_breakdown.model_build = COST_blender_build,
                                   !.progress.actual_cost = @ + COST_blender_build])
    /\ UNCHANGED <<input, configured, store, should_cancel, cancelInBatch, failedAt, sections, gs,
                 attempts, request>>

\* build_venue_model_activity returns the model
BuildModelReturns ==
    /\ wf.pc = "build_model"
    /\ wf' = [wf EXCEPT !.blend_file_b64 = TRUE,
                        !.cost_breakdown.model_build = COST_blender_build,
                        !.progress.actual_cost = @ + COST_blender_build,
                        !.pc = "save_blend"]
    /\ UNCHANGED <<input, configured, store, should_cancel, cancelInBatch, failedAt, sections, gs,
                 attempts, request>>

\* save_blend_file_activity returns: uploaded, or written to local disk
SaveBlendReturns ==
    /\ wf.pc = "save_blend"
    /\ \E remote \in {FALSE, configured} :
         store' = [store EXCEPT !.remote_blend = @ \/ remote,
                                !.local_blend = @ \/ ~remote,
                                !.run_blend = TRUE]
    /\ wf' = AfterModel(wf)
    /\ UNCHANGED <<input, configured, should_cancel, cancelInBatch, failedAt, sections, gs,
                 attempts, request>>

\* ----- actions: stage 3, depth maps -----

\* mutant: the counter is set to the size of the last batch
DepthMapsRenderedOfBatch(all_depth_maps, batch_depths) == Cardinality(batch_depths)

\* self._progress.depth_maps_rendered = len(all_depth_maps)
DepthMapsRendered(all_depth_maps, batch_depths) == Cardinality(all_depth_maps)

\* mutant: an item whose upload fails is dropped instead of written to local disk
SaveTargetsNoFallback(items) ==
    IF configured THEN UNION {[S -> {"remote"}] : S \in SUBSET items}
    ELSE [items -> {"local"}]

\* where a save activity puts its items: the object store when it is configured, and
\* local disk for the items whose upload fails (or all, without a client)
SaveTargets(items) ==
    IF configured THEN [items -> {"remote", "local"}] ELSE [items -> {"local"}]

Put(kind, st, paths) ==
    LET rem == {x \in DOMAIN paths : paths[x] = "remote"}
        loc == {x \in DOMAIN paths : paths[x] = "local"}
    IN  IF kind = "depth"
        THEN [st EXCEPT !.remote_depth = @ \cup rem, !.local_depth = @ \cup loc,
                        !.run_depth = @ \cup DOMAIN paths]
        ELSE [st EXCEPT !.remote_images = @ \cup rem, !.local_images = @ \cup loc,
                        !.run_images = @ \cup DOMAIN paths]

\* load_existing_depth_maps_activity returns the depth maps it could download from the
\* object store: none without configuration or when the listing fails
LoadDepthsReturns ==
    /\ wf.pc = "load_depths"
    /\ \E loaded \in SUBSET (IF configured THEN store.remote_depth ELSE {}) :
         wf' = IF loaded # {}
               THEN AfterDepths([wf EXCEPT
                        !.all_depth_maps = loaded,
                        !.progress.depth_maps_rendered = Cardinality(loaded),
                        !.depth_paths = [x \in loaded |-> "supabase"]])
               ELSE EnterRender(wf)
    /\ UNCHANGED <<input, configured, store, should_cancel, cancelInBatch, failedAt, sections, gs,
                 attempts, request>>

\* mutant: the cost of a batch replaces the depth_rendering entry instead of adding to it
RenderReturnsCostOverwritten ==
    /\ wf.pc = "render_batch"
    /\ LET batch == Slice(wf.seats_to_render, wf.batch_idx, input.depth_batch_size)
           cost  == Len(batch) * COST_depth_render_per_seat
       IN  \E batch_depths \in SUBSET Range(batch) :
             LET all == wf.all_depth_maps \cup batch_depths
             IN  wf' = DepthLoopHead([wf EXCEPT
                         !.all_depth_maps = all,
                         !.cost_breakdown.depth_rendering = cost,
                         !.progress.actual_cost = @ + cost,
                         !.progress.depth_maps_rendered = DepthMapsRendered(all, batch_depths),
                         !.batch_idx = @ + input.depth_batch_size])
    /\ UNCHANGED <<input, configured, store, should_cancel, cancelInBatch, failedAt, sections, gs,
                 attempts, request>>

\* render_depth_maps_activity returns the depth maps of a batch; a seat whose PNG is
\* missing after the render is left out (modal_app.py, render_depth_maps)
RenderReturns ==
    /\ wf.pc = "render_batch"
    /\ LET batch == Slice(wf.seats_to_render, wf.batch_idx, input.depth_batch_size)
           cost  == Len(batch) * COST_depth_render_per_seat
       IN  \E batch_depths \in SUBSET Range(batch) :
             LET all == wf.all_depth_maps \cup batch_depths
             IN  wf' = DepthLoopHead([wf EXCEPT
                         !.all_depth_maps = all,
                         !.cost_breakdown.depth_rendering = @ + cost,
                         !.progress.actual_cost = @ + cost,
                         !.progress.depth_maps_rendered = DepthMapsRendered(all, batch_depths),
                         !.batch_idx = @ + input.depth_batch_size])
    /\ UNCHANGED <<input, configured, store, should_cancel, cancelInBatch, failedAt, sections, gs,
                 attempts, request>>

\* save_depth_maps_activity returns the path of every depth map
SaveDepthsReturns ==
    /\ wf.pc = "save_depths"
    /\ \E paths \in SaveTargets(wf.all_depth_maps) :
         /\ store' = Put("depth", store, paths)
         /\ wf' = AfterDepths([wf EXCEPT !.depth_paths = paths])
    /\ UNCHANGED <<input, configured, should_cancel, cancelInBatch, failedAt, sections, gs,
                 attempts, request>>

\* ----- stage 4: _generate_images_parallel -----

\* cost_per_image = model_costs.get(input.model, 0.02)
CostPerImage(model) ==
    CASE model = "flux" -> COST_flux_per_image
      [] model = "sdxl" -> COST_sdxl_per_image
      [] model = "controlnet" -> COST_controlnet_per_image
      [] model = "ip_adapter" -> COST_ip_adapter_per_image
      [] OTHER -> COST_default_per_image

\* mutant: the slice takes one seat too many
BatchIdsOffByOne(seat_ids, batch_start, batch_size) == Slice(seat_ids, batch_start, batch_size + 1)

\* batch_ids = seat_ids[batch_start:batch_start + batch_size]
BatchIds(seat_ids, batch_start, batch_size) == Slice(seat_ids, batch_start, batch_size)

\* for batch_start in range(0, len(seat_ids), batch_size):
\*     if self._should_cancel: break ... one execute_activity per seat of the batch
\* after the loop: return generated; run() marks COMPLETED and returns _make_result
\* A call counts as in flight from execute_activity on.  Were it started only by its
\* `await task`, run() would see the same results in the same order: those are the
\* behaviours here in which a call ends just before it is awaited.
ImageLoopHead(s) ==
    IF s.batch_start < Len(s.seat_ids) /\ ~should_cancel
    THEN LET batch_ids == BatchIds(s.seat_ids, s.batch_start, input.parallel_image_batch_size)
         IN  [s EXCEPT !.tasks = [i \in 1..Len(batch_ids) |->
                                     [seat_id |-> batch_ids[i], status |-> "running"]],
                       !.next_task = 1,
                       !.batch_images = {},
                       !.calls.synth = @ + Len(batch_ids),
                       !.pc = "await_tasks"]
    ELSE LET r == [s EXCEPT !.image_paths = s.generated]
         IN  ReturnCompleted(r, 4, r.depth_paths, r.image_paths)

\* mutant: a call is issued for every depth map, existing image or not
GenerateImagesForAll(s, existing_images) ==
    LET g == [s EXCEPT !.generated = existing_images,
                       !.seat_ids = SeqOfSet(s.all_depth_maps),
                       !.batch_start = 0]
    IN  ImageLoopHead(g)

\* generated = dict(existing_images); seat_ids = the keys of depth_maps not in it
GenerateImagesParallel(s, existing_images) ==
    LET g == [s EXCEPT !.generated = existing_images,
                       !.seat_ids = SeqOfSet(s.all_depth_maps \ DOMAIN existing_images),
                       !.batch_start = 0]
    IN  ImageLoopHead(g)

\* the end of one pass of the loop body
NextBatch(s) ==
    ImageLoopHead([s EXCEPT !.batch_start = @ + input.parallel_image_batch_size,
                            !.tasks = <<>>, !.next_task = 1, !.batch_images = {}])

\* if batch_images: await save_generated_images_activity
AfterBatch(s) ==
    IF s.batch_images # {} THEN [s EXCEPT !.pc = "save_images"] ELSE NextBatch(s)

\* mutant: an image counts only when no call of its batch is still running at the time
\* its task is awaited
TaskResultWhenAllEnded(s, t) ==
    IF t.status = "ok" /\ \A i \in 1..Len(s.tasks) : s.tasks[i].status # "running"
    THEN [s EXCEPT !.batch_images = @ \cup {t.seat_id},
                   !.progress.images_generated = @ + 1,
                   !.cost_breakdown.image_generation = @ + CostPerImage(input.model),
                   !.progress.actual_cost = @ + CostPerImage(input.model)]
    ELSE [s EXCEPT !.progress.failed_items = Append(@, t.seat_id)]

\* mutant: a seat whose call returned an image is logged as failed as well
TaskResultAlsoFailed(s, t) ==
    IF t.status = "ok"
    THEN [s EXCEPT !.batch_images = @ \cup {t.seat_id},
                   !.progress.images_generated = @ + 1,
                   !.cost_breakdown.image_generation = @ + CostPerImage(input.model),
                   !.progress.actual_cost = @ + CostPerImage(input.model),
                   !.progress.failed_items = Append(@, t.seat_id)]
    ELSE [s EXCEPT !.progress.failed_items = Append(@, t.seat_id)]

\* result = await task, and the bookkeeping of one seat
TaskResult(s, t) ==
    IF t.status = "ok"
    THEN [s EXCEPT !.batch_images = @ \cup {t.seat_id},
                   !.progress.images_generated = @ + 1,
                   !.cost_breakdown.image_generation = @ + CostPerImage(input.model),
                   !.progress.actual_cost = @ + CostPerImage(input.model)]
    ELSE [s EXCEPT !.progress.failed_items = Append(@, t.seat_id)]

\* load_existing_images_activity returns the final images found on local disk
LoadImagesReturns ==
    /\ wf.pc = "load_images"
    /\ wf' = GenerateImagesParallel(wf, [x \in store.local_images |-> "local"])
    /\ UNCHANGED <<input, configured, store, should_cancel, cancelInBatch, failedAt, sections, gs,
                 attempts, request>>

\* one generate_ai_image_activity of the batch in flight ends: an image, None, or an
\* error after the retries of AI_GENERATION_RETRY
SynthCompletes ==
    /\ wf.pc = "await_tasks"
    /\ \E i \in 1..Len(wf.tasks), outcome \in {"ok", "none", "error"} :
         /\ wf.tasks[i].status = "running"
         /\ wf' = [wf EXCEPT !.tasks[i].status = outcome]
    /\ UNCHANGED <<input, configured, store, should_cancel, cancelInBatch, failedAt, sections, gs,
                 attempts, request>>

\* the workflow resumes from `await task` of the next task in the order of launch
AwaitTask ==
    /\ wf.pc = "await_tasks"
    /\ wf.next_task <= Len(wf.tasks)
    /\ wf.tasks[wf.next_task].status # "running"
    /\ LET s == [TaskResult(wf, wf.tasks[wf.next_task]) EXCEPT !.next_task = @ + 1]
       IN  wf' = IF s.next_task > Len(s.tasks) THEN AfterBatch(s) ELSE s
    /\ UNCHANGED <<input, configured, store, should_cancel, cancelInBatch, failedAt, sections, gs,
                 attempts, request>>

\* save_generated_images_activity returns the path of every image of the batch
SaveImagesReturns ==
    /\ wf.pc = "save_images"
    /\ \E paths \in SaveTargets(wf.batch_images) :
         /\ store' = Put("image", store, paths)
         /\ wf' = NextBatch([wf EXCEPT !.generated = Merge(@, paths)])
    /\ UNCHANGED <<input, configured, should_cancel, cancelInBatch, failedAt, sections, gs,
                 attempts, request>>

\* ----- failures -----

\* an activity awaited directly by run() fails for good (retry policy exhausted, or a
\* non-retryable error): the exception reaches `except Exception`
ActivityFails ==
    /\ wf.pc \in {"gen_seats", "save_seats", "load_blend", "build_model", "load_depths",
                  "render_batch", "load_images"}
    /\ wf' = ExceptionHandler(wf)
    /\ failedAt' = wf.pc
    /\ UNCHANGED <<input, configured, store, should_cancel, cancelInBatch, sections, gs,
                 attempts, request>>

\* the items a save activity has gone through when it fails: it takes them in order
WrittenBeforeFailure(items) == {{x \in items : x <= k} : k \in 0..MaxSeats}

\* a save activity fails for good, possibly after it has written some of its items
SaveFails ==
    /\ wf.pc \in {"save_blend", "save_depths", "save_images"}
    /\ \/ /\ wf.pc = "save_blend"
          /\ \E w \in BOOLEAN :
               store' = [store EXCEPT !.local_blend = @ \/ w, !.run_blend = @ \/ w]
       \/ /\ wf.pc = "save_depths"
          /\ \E written \in WrittenBeforeFailure(wf.all_depth_maps) : \E paths \in SaveTargets(written) :
               store' = Put("depth", store, paths)
       \/ /\ wf.pc = "save_images"
          /\ \E written \in WrittenBeforeFailure(wf.batch_images) : \E paths \in SaveTargets(written) :
               store' = Put("image", store, paths)
    /\ wf' = ExceptionHandler(wf)
    /\ failedAt' = wf.pc
    /\ UNCHANGED <<input, configured, should_cancel, cancelInBatch, sections, gs,
                 attempts, request>>

\* ----- generate_seats (modal_app.py) -----

\* the tiers a section can have
Tiers == {"floor", "lower", "mid", "upper", "club"}

\* Section ids are the numbers 1..MaxSections: strings of one digit, which sorted()
\* puts in the order of the numbers.
SectionIds == 1..MaxSections

\* the row labels in the order sorted() puts these strings in
SortedRowLabels == <<"Back", "Front", "Middle">>

\* sorted(set(s["row"] for s in section_seats))
SortedRows(section_seats) ==
    SelectSeq(SortedRowLabels, LAMBDA l : \E i \in 1..Len(section_seats) : section_seats[i].row = l)

\* seq[len(seq) // 2]
Center(seq) == seq[(Len(seq) \div 2) + 1]

\* positions = [("Front", 0), ("Middle", rows // 2), ("Back", rows - 1)]
Positions(rows) ==
    << [row_label |-> "Front", row_num |-> 0],
       [row_label |-> "Middle", row_num |-> rows \div 2],
       [row_label |-> "Back", row_num |-> rows - 1] >>

\* f"{section_id}_{row_label}_1"
SeatId(section_id, row_label) == <<section_id, row_label, 1>>

\* generate_seats_for_section: x, y, z and look_angle of a seat are a function of the
\* geometry of the section and of row_num, which stands for them here
GenerateSeatsForSection(section_data) ==
    LET positions == Positions(section_data.rows)
    IN  [i \in 1..Len(positions) |->
            [id |-> SeatId(section_data.section_id, positions[i].row_label),
             section |-> section_data.section_id,
             row |-> positions[i].row_label,
             seat |-> 1,
             tier |-> section_data.tier,
             row_num |-> positions[i].row_num]]

RECURSIVE AllSeats(_)
\* for section_id, section_data in sections.items(): all_seats.extend(...)
AllSeats(items) ==
    IF items = <<>> THEN <<>>
    ELSE GenerateSeatsForSection(Head(items)) \o AllSeats(Tail(items))

RECURSIVE SectionKeys(_, _)
\* the keys of sections_by_id, in the order they are inserted
SectionKeys(seats, seen) ==
    IF seats = <<>> THEN <<>>
    ELSE IF Head(seats).section \in seen THEN SectionKeys(Tail(seats), seen)
    ELSE <<Head(seats).section>> \o SectionKeys(Tail(seats), seen \cup {Head(seats).section})

\* sample_rows: the first row, the middle one of more than two, the last of several
SampleRows(rows) ==
    <<rows[1]>>
        \o (IF Len(rows) > 2 THEN <<Center(rows)>> ELSE <<>>)
        \o (IF Len(rows) > 1 THEN <<rows[Len(rows)]>> ELSE <<>>)

RECURSIVE SampleOfRows(_, _)
\* for row in sample_rows: the centre seat of the row
SampleOfRows(section_seats, sample_rows) ==
    IF sample_rows = <<>> THEN <<>>
    ELSE LET row_seats == SelectSeq(section_seats, LAMBDA s : s.row = Head(sample_rows))
         IN  (IF row_seats # <<>> THEN <<Center(row_seats)>> ELSE <<>>)
                 \o SampleOfRows(section_seats, Tail(sample_rows))

RECURSIVE SampleOfSections(_, _)
\* for section_id, section_seats in sections_by_id.items()
SampleOfSections(all_seats, keys) ==
    IF keys = <<>> THEN <<>>
    ELSE LET section_seats == SelectSeq(all_seats, LAMBDA s : s.section = Head(keys))
         IN  SampleOfRows(section_seats, SampleRows(SortedRows(section_seats)))
                 \o SampleOfSections(all_seats, Tail(keys))

SampleSeats(all_seats) == SampleOfSections(all_seats, SectionKeys(all_seats, {}))

\* tiers = {"lower": [], "mid": [], "upper": []}
AnchorTiers == <<"lower", "mid", "upper">>

\* tiers[seat["tier"]].append(seat) raises KeyError for a tier that is no key of tiers
TierKeyError(all_seats) ==
    \E i \in 1..Len(all_seats) : all_seats[i].tier \notin Range(AnchorTiers)

\* tier_sections = sorted(set(s["section"] for s in tier_seats))
TierSections(tier_seats) == SeqOfSet({tier_seats[i].section : i \in 1..Len(tier_seats)})

\* the first, the middle and the last section of a tier of three sections or more
SampleSections(tier_sections) ==
    IF Len(tier_sections) >= 3
    THEN <<tier_sections[1], Center(tier_sections), tier_sections[Len(tier_sections)]>>
    ELSE tier_sections

\* the anchors of one sampled section: the centre seat of rows[0], and of rows[-1]
AnchorsOfSection(section_seats) ==
    LET rows == SortedRows(section_seats)
    IN  IF rows = <<>> THEN <<>>
        ELSE LET front_row == SelectSeq(section_seats, LAMBDA s : s.row = rows[1])
                 back_row  == SelectSeq(section_seats, LAMBDA s : s.row = rows[Len(rows)])
             IN  (IF front_row # <<>> THEN <<Center(front_row)>> ELSE <<>>)
                     \o (IF Len(rows) > 1 /\ back_row # <<>>
                         THEN <<Center(back_row)>> ELSE <<>>)

RECURSIVE AnchorsOfSections(_, _)
\* for section in sample_sections
AnchorsOfSections(tier_seats, sample_sections) ==
    IF sample_sections = <<>> THEN <<>>
    ELSE AnchorsOfSection(SelectSeq(tier_seats, LAMBDA s : s.section = Head(sample_sections)))
             \o AnchorsOfSections(tier_seats, Tail(sample_sections))

RECURSIVE AnchorsOfTiers(_, _)
\* for tier, tier_seats in tiers.items()
AnchorsOfTiers(all_seats, tiers) ==
    IF tiers = <<>> THEN <<>>
    ELSE LET tier_seats == SelectSeq(all_seats, LAMBDA s : s.tier = Head(tiers))
         IN  AnchorsOfSections(tier_seats, SampleSections(TierSections(tier_seats)))
                 \o AnchorsOfTiers(all_seats, Tail(tiers))

AnchorSeats(all_seats) == AnchorsOfTiers(all_seats, AnchorTiers)

\* generate_seats has not been called
NotCalled ==
    [pc |-> "idle", all_seats |-> <<>>, sample_seats |-> <<>>, anchor_seats |-> <<>>]

\* generate_seats(sections): returns (all_seats, sample_seats, anchor_seats), or raises
GenerateSeats ==
    /\ gs.pc = "called"
    /\ LET all_seats == AllSeats(sections)
       IN  gs' = IF TierKeyError(all_seats)
                 THEN [gs EXCEPT !.pc = "raised"]
                 ELSE [pc |-> "returned",
                       all_seats |-> all_seats,
                       sample_seats |-> SampleSeats(all_seats),
                       anchor_seats |-> AnchorSeats(all_seats)]
    /\ UNCHANGED <<input, configured, store, should_cancel, wf, cancelInBatch, failedAt, sections,
                 attempts, request>>

\* ----- retry policies: the attempts of one activity call -----

\* the calls made under BLENDER_RETRY and AI_GENERATION_RETRY: the model build, the
\* render of the batch that starts at batch_idx, the synthesis of a seat
Calls ==
    {<<"build", 0>>} \cup {<<"render", b>> : b \in 0..(MaxSeats - 1)}
        \cup {<<"synth", x>> : x \in Seats}

\* failed: the attempts that raised; last: what the last of them failed on; result: how
\* the call ended, once it has
NoAttempts == [c \in Calls |-> [failed |-> 0, last |-> "none", result |-> "unset"]]

RetryPolicy(call) == IF call[1] = "synth" THEN "AI_GENERATION_RETRY" ELSE "BLENDER_RETRY"

MaximumAttempts(policy) ==
    IF policy = "AI_GENERATION_RETRY" THEN MAX_ATTEMPTS_AI ELSE MAX_ATTEMPTS_BLENDER

NonRetryableErrorTypes(policy) ==
    IF policy = "BLENDER_RETRY" THEN {"ValueError"} ELSE {}

\* what an attempt can fail on
Causes(call) ==
    IF call[1] = "synth" THEN {"rate_limit", "auth"} ELSE {"config", "value"}

\* the type of the exception that reaches the retry policy: generate_ai_image wraps
\* whatever was raised in a RuntimeError; build_venue_model and render_depth_maps raise
\* RuntimeError when the Blender script exits with an error, as it does on a
\* configuration it cannot build; "value" stands for a ValueError raised in the call
ErrorType(call, cause) ==
    IF call[1] # "synth" /\ cause = "value" THEN "ValueError" ELSE "RuntimeError"

\* mutant: a failed attempt is never retried
AttemptFailedNoRetry(a, policy, cause, type) ==
    [failed |-> a.failed + 1, last |-> cause, result |-> "error"]

\* one attempt raises: the call fails for good on a non-retryable type and when
\* maximum_attempts is reached, and is attempted again otherwise
AttemptFailed(a, policy, cause, type) ==
    [failed |-> a.failed + 1,
     last   |-> cause,
     result |-> IF type \in NonRetryableErrorTypes(policy)
                   \/ a.failed + 1 >= MaximumAttempts(policy)
                THEN "error" ELSE a.result]

\* an attempt of build_venue_model_activity or of render_depth_maps_activity raises
BlenderAttemptFails ==
    /\ wf.pc \in {"build_model", "render_batch"}
    /\ LET call == IF wf.pc = "build_model" THEN <<"build", 0>> ELSE <<"render", wf.batch_idx>>
       IN  \E cause \in Causes(call) :
             LET a == AttemptFailed(attempts[call], RetryPolicy(call), cause, ErrorType(call, cause))
             IN  /\ attempts' = [attempts EXCEPT ![call] = a]
                 /\ IF a.result = "error"
                    THEN wf' = ExceptionHandler(wf) /\ failedAt' = wf.pc
                    ELSE UNCHANGED <<wf, failedAt>>
    /\ UNCHANGED <<input, configured, store, should_cancel, cancelInBatch, sections, gs, request>>

\* an attempt of a generate_ai_image_activity in flight raises
SynthAttemptFails ==
    /\ wf.pc = "await_tasks"
    /\ \E i \in 1..Len(wf.tasks), cause \in Causes(<<"synth", 0>>) :
         LET call == <<"synth", wf.tasks[i].seat_id>>
             a    == AttemptFailed(attempts[call], RetryPolicy(call), cause, ErrorType(call, cause))
         IN  /\ wf.tasks[i].status = "running"
             /\ attempts' = [attempts EXCEPT ![call] = a]
             /\ wf' = IF a.result = "error" THEN [wf EXCEPT !.tasks[i].status = "error"] ELSE wf
    /\ UNCHANGED <<input, configured, store, should_cancel, cancelInBatch, failedAt, sections, gs,
                 request>>

\* an attempt of a generate_ai_image_activity in flight returns: an image, or None
SynthAttemptReturns ==
    /\ wf.pc = "await_tasks"
    /\ \E i \in 1..Len(wf.tasks), outcome \in {"ok", "none"} :
         /\ wf.tasks[i].status = "running"
         /\ attempts' = [attempts EXCEPT ![<<"synth", wf.tasks[i].seat_id>>].result = outcome]
         /\ wf' = [wf EXCEPT !.tasks[i].status = outcome]
    /\ UNCHANGED <<input, configured, store, should_cancel, cancelInBatch, failedAt, sections, gs,
                 request>>

NoRequest == [pc |-> "none"]

\* Artifacts left by earlier runs for the same venue.  store.run_blend, run_depth and
\* run_images record what the present run has persisted (in either place).
PriorSeatSets == {{}, {1}, Seats}

PriorDepthSets == {{}, Seats}

\* Where the earlier runs left their final images, as [remote, local]: on local disk
\* (no client, or the uploads failed), or in the object store, by a run that had
\* uploaded its blend file and the depth maps of all seats before
PriorImages(b, d) ==
    {[remote |-> {}, local |-> i] : i \in PriorSeatSets}
        \cup (IF configured /\ b /\ d = Seats THEN {[remote |-> Seats, local |-> {}]} ELSE {})

Inputs ==
    [stop_after_model : BOOLEAN, stop_after_depths : BOOLEAN, skip_ai_generation : BOOLEAN,
     skip_model_build : BOOLEAN, skip_depth_render : BOOLEAN,
     depth_batch_size : 1..MaxBatch, parallel_image_batch_size : 1..MaxBatch,
     custom_seats : {{}, {MaxSeats}},
     model : Models]

Init ==
    /\ input \in Inputs
    /\ configured \in BOOLEAN
    /\ \E b \in BOOLEAN, d \in PriorDepthSets : \E i \in PriorImages(b, d) :
         store = [remote_blend |-> b /\ configured, local_blend |-> b /\ ~configured,
                  remote_depth |-> IF configured THEN d ELSE {},
                  local_depth |-> IF configured THEN {} ELSE d,
                  remote_images |-> i.remote, local_images |-> i.local,
                  run_blend |-> FALSE, run_depth |-> {}, run_images |-> {}]
    /\ should_cancel = FALSE
    /\ wf = InitWf
    /\ cancelInBatch = FALSE
    /\ failedAt = "none"
    /\ sections = <<>>
    /\ gs = NotCalled
    /\ attempts = NoAttempts
    /\ request = NoRequest

\* a step of the workflow or of one of its activities
Step ==
    \/ Start
    \/ GenerateSeatsReturns
    \/ SaveSeatsReturns
    \/ LoadBlendReturns
    \/ BuildModelReturns
    \/ SaveBlendReturns
    \/ LoadDepthsReturns
    \/ RenderReturns
    \/ SaveDepthsReturns
    \/ LoadImagesReturns
    \/ SynthCompletes
    \/ AwaitTask
    \/ SaveImagesReturns
    \/ ActivityFails
    \/ SaveFails

Next == Step \/ Cancel

Spec == Init /\ [][Next]_vars

\* The runs that start with a configured object store holding a blend file and depth
\* maps of an earlier run.  Every outcome a load or a save has without them (nothing
\* found, written to local disk) is also an outcome it has with them, so that run()
\* goes through the same positions from these states as from all of Init.  Final
\* images in the object store are read by no activity, so they are left out.
FairInit ==
    /\ Init
    /\ configured
    /\ store.remote_blend
    /\ store.remote_depth = Seats
    /\ store.remote_images = {}

\* Every activity call eventually returns or fails, and the workflow is resumed when
\* the activity it awaits has ended; the signal may never arrive.
FairSpec == FairInit /\ [][Next]_vars /\ WF_vars(Step)

\* The section mappings generate_seats is given: the sections of a non-empty set of
\* ids, each of some tier and with some number of rows, as the items of the dict in
\* ascending or in descending order of the ids.
SectionMaps ==
    UNION {[S -> [tier : Tiers, rows : 1..MaxRows]] : S \in (SUBSET SectionIds) \ {{}}}

Reverse(seq) == [i \in 1..Len(seq) |-> seq[Len(seq) + 1 - i]]

Items(m, descending) ==
    LET ids   == SeqOfSet(DOMAIN m)
        items == [i \in 1..Len(ids) |->
                     [section_id |-> ids[i], tier |-> m[ids[i]].tier, rows |-> m[ids[i]].rows]]
    IN  IF descending THEN Reverse(items) ELSE items

\* generate_seats is called with one of these mappings; no workflow runs
SeatInit ==
    /\ \E m \in SectionMaps, descending \in BOOLEAN : sections = Items(m, descending)
    /\ gs = [NotCalled EXCEPT !.pc = "called"]
    /\ input = CHOOSE i \in Inputs : TRUE
    /\ configured = FALSE
    /\ store = [remote_blend |-> FALSE, local_blend |-> FALSE,
                remote_depth |-> {}, local_depth |-> {},
                remote_images |-> {}, local_images |-> {},
                run_blend |-> FALSE, run_depth |-> {}, run_images |-> {}]
    /\ should_cancel = FALSE
    /\ wf = InitWf
    /\ cancelInBatch = FALSE
    /\ failedAt = "none"
    /\ attempts = NoAttempts
    /\ request = NoRequest

SeatNext == GenerateSeats

SeatSpec == SeatInit /\ [][SeatNext]_vars

\* The runs of a fresh venue without stop or skip flags and without cancel, in which
\* the calls under BLENDER_RETRY and AI_GENERATION_RETRY are followed attempt by
\* attempt and every other activity returns.  The depth maps are rendered in batches
\* of the largest size.
RetryInit ==
    /\ input \in {i \in Inputs :
                    /\ ~i.stop_after_model /\ ~i.stop_after_depths /\ ~i.skip_ai_generation
                    /\ ~i.skip_model_build /\ ~i.skip_depth_render
                    /\ i.custom_seats = {}
                    /\ i.depth_batch_size = MaxBatch}
    /\ configured = FALSE
    /\ store = [remote_blend |-> FALSE, local_blend |-> FALSE,
                remote_depth |-> {}, local_depth |-> {},
                remote_images |-> {}, local_images |-> {},
                run_blend |-> FALSE, run_depth |-> {}, run_images |-> {}]
    /\ should_cancel = FALSE
    /\ wf = InitWf
    /\ cancelInBatch = FALSE
    /\ failedAt = "none"
    /\ sections = <<>>
    /\ gs = NotCalled
    /\ attempts = NoAttempts
    /\ request = NoRequest

RetryNext ==
    \/ Start
    \/ GenerateSeatsReturns
    \/ SaveSeatsReturns
    \/ BuildModelReturns
    \/ SaveBlendReturns
    \/ RenderReturns
    \/ SaveDepthsReturns
    \/ LoadImagesReturns
    \/ BlenderAttemptFails
    \/ SynthAttemptFails
    \/ SynthAttemptReturns
    \/ AwaitTask
    \/ SaveImagesReturns

RetrySpec == RetryInit /\ [][RetryNext]_vars

\* ----- POST /pipelines, and the section filter at the start of run() -----

\* Optional[List[str]]: None, or a list of section ids
Selections ==
    {[present |-> FALSE, ids |-> {}]} \cup {[present |-> TRUE, ids |-> S] : S \in SUBSET SectionIds}

\* the sections of a request: any set of section ids, as the items of the dict
RequestSections ==
    {Items([x \in S |-> [tier |-> "lower", rows |-> 1]], FALSE) : S \in SUBSET SectionIds}

\* the JSON bodies: the execution controls, the sections and the selection
Requests ==
    [pc : {"received"},
     stop_after_model : BOOLEAN, stop_after_depths : BOOLEAN, skip_ai_generation : BOOLEAN,
     skip_model_build : BOOLEAN, skip_depth_render : BOOLEAN,
     depth_batch_size : 1..MaxBatch, parallel_image_batch_size : 1..MaxBatch,
     sections : RequestSections, selected_section_ids : Selections]

\* request: PipelineRequest keeps the fields the schema declares
PipelineRequest(body) ==
    [stop_after_model |-> body.stop_after_model,
     stop_after_depths |-> body.stop_after_depths,
     skip_ai_generation |-> body.skip_ai_generation,
     sections |-> body.sections,
     selected_section_ids |-> body.selected_section_ids]

\* input_data = VenuePipelineInput(...): the fields start_pipeline does not pass take
\* the defaults of the dataclass
VenuePipelineInputOf(req) ==
    [stop_after_model |-> req.stop_after_model,
     stop_after_depths |-> req.stop_after_depths,
     skip_ai_generation |-> req.skip_ai_generation,
     skip_model_build |-> FALSE,
     skip_depth_render |-> FALSE,
     depth_batch_size |-> DEFAULT_depth_batch_size,
     parallel_image_batch_size |-> DEFAULT_parallel_image_batch_size,
     custom_seats |-> {},
     model |-> "flux",
     sections |-> req.sections,
     selected_section_ids |-> req.selected_section_ids]

\* sections = input.sections; if input.selected_section_ids: keep the items whose key
\* is in the list (an empty list is false)
FilterSections(inp) ==
    IF inp.selected_section_ids.present /\ inp.selected_section_ids.ids # {}
    THEN SelectSeq(inp.sections, LAMBDA item : item.section_id \in inp.selected_section_ids.ids)
    ELSE inp.sections

\* start_pipeline: the workflow is started with the input built from the request
StartPipeline ==
    /\ request.pc = "received"
    /\ input' = VenuePipelineInputOf(PipelineRequest(request))
    /\ request' = [request EXCEPT !.pc = "started"]
    /\ UNCHANGED <<configured, store, should_cancel, wf, cancelInBatch, failedAt, sections, gs,
                 attempts>>

\* run() starts: the sections are filtered and generate_seats_activity is scheduled
\* with them
StartWithSections ==
    /\ request.pc = "started"
    /\ wf.pc = "start"
    /\ wf' = [wf EXCEPT !.progress.stage = "GENERATING_SEATS", !.progress.current_step = 1,
                        !.pc = "gen_seats", !.calls.seats = @ + 1]
    /\ sections' = FilterSections(input)
    /\ gs' = [gs EXCEPT !.pc = "called"]
    /\ UNCHANGED <<input, configured, store, should_cancel, cancelInBatch, failedAt,
                 attempts, request>>

\* a request is received; its workflow has not been started
ApiInit ==
    /\ request \in Requests
    /\ input = CHOOSE i \in Inputs : TRUE
    /\ configured = FALSE
    /\ store = [remote_blend |-> FALSE, local_blend |-> FALSE,
                remote_depth |-> {}, local_depth |-> {},
                remote_images |-> {}, local_images |-> {},
                run_blend |-> FALSE, run_depth |-> {}, run_images |-> {}]
    /\ should_cancel = FALSE
    /\ wf = InitWf
    /\ cancelInBatch = FALSE
    /\ failedAt = "none"
    /\ sections = <<>>
    /\ gs = NotCalled
    /\ attempts = NoAttempts

ApiNext == StartPipeline \/ StartWithSections \/ GenerateSeats

ApiSpec == ApiInit /\ [][ApiNext]_vars

\* ======================= properties =======================

Done == wf.pc = "done"

TerminalStages == {"COMPLETED", "FAILED", "CANCELLED"}

\* the forward order of the stages; the terminal stages share the last rank
StageRank(stage) ==
    CASE stage = "PENDING" -> 0
      [] stage = "GENERATING_SEATS" -> 1
      [] stage = "BUILDING_MODEL" -> 2
      [] stage = "RENDERING_DEPTHS" -> 3
      [] stage = "GENERATING_IMAGES" -> 4
      [] OTHER -> 5

\* depth maps of the run that are in the artifact store: saved by the run, or loaded
\* from the store by the run
PersistedDepth ==
    store.run_depth \cup {x \in DOMAIN wf.depth_paths : wf.depth_paths[x] = "supabase"}

\* final images the run has saved
PersistedImages == store.run_images

\* synthesis calls in flight
InFlight(s) == {i \in 1..Len(s.tasks) : s.tasks[i].status = "running"}

\* C1: whenever the cancel signal arrived while the stage was not yet COMPLETED or
\* FAILED, the stage of the progress snapshot when run() returns is CANCELLED.
C1_CancelForcesCancelled ==
    (Done /\ should_cancel) => wf.progress.stage = "CANCELLED"

\* C2: when the cancel signal arrives while an image batch is in flight, the successes
\* of that batch are persisted and the run ends with stage CANCELLED and success=false.
C2_CancelDuringSynthesis ==
    (Done /\ cancelInBatch /\ failedAt = "none")
        => /\ wf.progress.images_generated = Cardinality(PersistedImages)
           /\ wf.progress.stage = "CANCELLED"
           /\ ~wf.result.success

\* C3: if Cancel was invoked, then when run() returns depth_maps_rendered equals the
\* number of depth maps of the run in the artifact store and images_generated equals
\* the number of final images the run persisted.
C3_CancelCountersArePersisted ==
    (Done /\ should_cancel)
        => /\ wf.progress.depth_maps_rendered = Cardinality(PersistedDepth)
           /\ wf.progress.images_generated = Cardinality(PersistedImages)

\* C4: the stage of the progress only moves forward in the order PENDING,
\* GENERATING_SEATS, BUILDING_MODEL, RENDERING_DEPTHS, GENERATING_IMAGES, terminal;
\* a terminal stage is never left; seats_generated, depth_maps_rendered and
\* images_generated never decrease.
C4_MonotonicProgress ==
    [][ /\ StageRank(wf'.progress.stage) >= StageRank(wf.progress.stage)
        /\ (wf.progress.stage \in TerminalStages => wf'.progress.stage = wf.progress.stage)
        /\ wf'.progress.seats_generated >= wf.progress.seats_generated
        /\ wf'.progress.depth_maps_rendered >= wf.progress.depth_maps_rendered
        /\ wf'.progress.images_generated >= wf.progress.images_generated ]_vars

C4_Witness ==
    /\ wf.progress.stage = "COMPLETED"
    /\ wf.progress.depth_maps_rendered = 2
    /\ wf.batch_idx = 2 * input.depth_batch_size
    /\ wf.progress.images_generated >= 1

\* C5: without cancel and without failure, a run with stop_after_model makes no
\* depth-render call and no synthesis call and ends COMPLETED with success=true,
\* depth_maps_rendered=0 and images_generated=0; a run with stop_after_depths or
\* skip_ai_generation makes no synthesis call and ends COMPLETED with success=true and
\* images_generated=0.
C5_EarlyStopCompletes ==
    (~should_cancel /\ failedAt = "none")
        => /\ input.stop_after_model
                => /\ wf.calls.render = 0 /\ wf.calls.synth = 0
                   /\ wf.progress.depth_maps_rendered = 0
                   /\ wf.progress.images_generated = 0
                   /\ Done => /\ wf.progress.stage = "COMPLETED" /\ wf.result.success
                              /\ wf.result.depth_maps_rendered = 0
                              /\ wf.result.images_generated = 0
           /\ (input.stop_after_depths \/ input.skip_ai_generation)
                => /\ wf.calls.synth = 0
                   /\ wf.progress.images_generated = 0
                   /\ Done => /\ wf.progress.stage = "COMPLETED" /\ wf.result.success
                              /\ wf.result.images_generated = 0

C5_Witness ==
    /\ Done /\ ~should_cancel /\ failedAt = "none"
    /\ input.stop_after_model /\ ~input.stop_after_depths /\ ~input.skip_ai_generation
    /\ wf.calls.build = 1 /\ store.run_blend
    /\ wf.progress.stage = "COMPLETED"

\* C6: provided every activity call eventually returns or fails, run() eventually
\* returns a PipelineResult; no activity error leaves run().
C6_RunAlwaysReturns == <>Done

C6_Witness == Done /\ failedAt = "render_batch" /\ should_cancel /\ wf.batch_idx > 0

\* C7: when seat generation, the seat JSON save, the model build, the blend save, a
\* depth-render batch or the depth save fails for good, the run has ended with stage
\* FAILED, success=false and an error message, and no remote call of a later stage
\* has been made.
C7_StageFailureIsFatal ==
    /\ failedAt \in {"gen_seats", "save_seats", "build_model", "save_blend",
                     "render_batch", "save_depths"}
          => /\ Done
             /\ wf.progress.stage = "FAILED"
             /\ ~wf.result.success
             /\ wf.result.error_message # "none"
             /\ wf.calls.synth = 0
    /\ failedAt \in {"gen_seats", "save_seats"} => wf.calls.build = 0 /\ wf.calls.render = 0
    /\ failedAt \in {"build_model", "save_blend"} => wf.calls.render = 0

C7_Witness ==
    /\ failedAt = "save_depths" /\ Done
    /\ wf.calls.render >= 1 /\ wf.all_depth_maps # {}

\* C8: when a run ends FAILED, depth_maps_rendered and images_generated of its result
\* equal the number of depth maps and final images persisted before the failure.
C8_FailedCountsArePersisted ==
    (Done /\ wf.progress.stage = "FAILED")
        => /\ wf.result.depth_maps_rendered = Cardinality(PersistedDepth)
           /\ wf.result.images_generated = Cardinality(PersistedImages)

\* C9: in a run without cancel that got through image synthesis with k synthesis calls
\* failed (or returning no image) and the others successful, the result has
\* success=true, stage COMPLETED, k failed seats, and images_generated + k equal to
\* the size of the render set.
C9_PerSeatFailureIsolation ==
    (Done /\ ~should_cancel /\ failedAt = "none" /\ wf.progress.current_step = 4)
        => /\ wf.result.success
           /\ wf.progress.stage = "COMPLETED"
           /\ Len(wf.result.failed_seats) = wf.calls.synth - wf.progress.images_generated
           /\ wf.result.images_generated + Len(wf.result.failed_seats)
                = Len(SeatsToRender(wf))

\* C10: at most parallel_image_batch_size synthesis calls are in flight, and the
\* synthesis calls of a batch are started only when no call of the batch before is in
\* flight and every image generated so far has been saved.
C10_BoundedFanOut ==
    /\ [](Cardinality(InFlight(wf)) <= input.parallel_image_batch_size)
    /\ [][ wf'.calls.synth > wf.calls.synth
             => /\ InFlight(wf) = {}
                /\ wf'.progress.images_generated = Cardinality(store'.run_images) ]_vars

C10_Witness ==
    /\ wf.pc = "await_tasks"
    /\ wf.batch_start > 0
    /\ Cardinality(InFlight(wf)) = input.parallel_image_batch_size
    /\ store.run_images # {}

\* C11: in every state of a run, depth_maps_rendered does not exceed the number of
\* depth maps of the run in the artifact store, and images_generated does not exceed
\* the number of final images the run has persisted: a counter is raised only after
\* the artifact it counts has been saved.
C11_PersistBeforeCount ==
    /\ wf.progress.depth_maps_rendered <= Cardinality(PersistedDepth)
    /\ wf.progress.images_generated <= Cardinality(PersistedImages)

\* the final images and the depth maps a listing of the artifact store shows
ListFinalImages == store.remote_images \cup store.local_images

ListDepthMaps == store.remote_depth \cup store.local_depth

\* the render set of the run: the seat ids of seats_to_render
RenderSet == Range(SeatsToRender(wf))

\* C12: after a run ends COMPLETED, images_generated of its result equals the number of
\* persisted final images whose seat id is in the render set, and depth_maps_rendered
\* equals the number of persisted depth maps whose seat id is in the render set
\* (persisted: by the run or loaded by it, or else anything the store lists).
C12_ArtifactCounterAgreement ==
    (Done /\ wf.progress.stage = "COMPLETED")
        => /\ wf.result.images_generated
                 \in {Cardinality(PersistedImages \cap RenderSet),
                      Cardinality(ListFinalImages \cap RenderSet)}
           /\ wf.result.depth_maps_rendered
                 \in {Cardinality(PersistedDepth \cap RenderSet),
                      Cardinality(ListDepthMaps \cap RenderSet)}

\* what the run found persisted by the run before it: the artifacts in the store that
\* the present run has not written
FirstRunBlend == (store.remote_blend \/ store.local_blend) /\ ~store.run_blend

FirstRunDepthMaps == ListDepthMaps \ store.run_depth

FirstRunImages == ListFinalImages \ store.run_images

\* C13, for a first run that saved to the local-disk fallback (no object store
\* configured, so that no load can fail on the way): when the first run left a blend
\* file, and a depth map and a final image for every seat of the render set, a second
\* run with skip_model_build = skip_depth_render = true makes no model-build call and
\* no depth-render call, and returns image_paths for the seats of the first run.
C13_ResumeIdempotence ==
    ( /\ ~configured
      /\ input.skip_model_build /\ input.skip_depth_render
      /\ FirstRunBlend
      /\ RenderSet # {}
      /\ RenderSet \subseteq FirstRunDepthMaps
      /\ RenderSet \subseteq FirstRunImages )
        => /\ wf.calls.build = 0
           /\ wf.calls.render = 0
           /\ (Done /\ wf.progress.stage = "COMPLETED" /\ wf.progress.current_step = 4)
                 => DOMAIN wf.result.image_paths = FirstRunImages

\* C14: a synthesis call is made only for seats that have no final image persisted by
\* an earlier run; if every seat of the depth-map set already has one, no synthesis
\* call is made and images_generated is not incremented.
C14_ResumeSkipsExistingImages ==
    /\ \A i \in 1..Len(wf.tasks) : wf.tasks[i].seat_id \notin FirstRunImages
    /\ wf.all_depth_maps \subseteq FirstRunImages
          => wf.calls.synth = 0 /\ wf.progress.images_generated = 0

\* C15: when load_existing_blend_activity or load_existing_depth_maps_activity returns
\* (the activity itself has not failed for good), the run is not FAILED; when the
\* object store is not configured or holds no such artifact, the load yields nothing
\* and the run goes on as a fresh run does: it schedules the model build, or computes
\* seats_to_render and enters the render loop with no depth map.
C15_ResumeProbeDegrades ==
    [][ /\ (wf.pc = "load_blend" /\ wf'.pc # "load_blend" /\ failedAt' = "none")
              => /\ wf'.progress.stage # "FAILED"
                 /\ ~(configured /\ store.remote_blend)
                       => /\ ~wf'.blend_file_b64
                          /\ wf'.pc = "build_model"
                          /\ wf'.progress.stage = "BUILDING_MODEL"
                          /\ wf'.calls.build = wf.calls.build + 1
        /\ (wf.pc = "load_depths" /\ wf'.pc # "load_depths" /\ failedAt' = "none")
              => /\ wf'.progress.stage # "FAILED"
                 /\ (~configured \/ store.remote_depth = {})
                       => /\ wf'.all_depth_maps = {}
                          /\ wf'.progress.stage = "RENDERING_DEPTHS"
                          /\ wf'.seats_to_render = SeatsToRender(wf)
                          /\ IF wf'.seats_to_render # <<>> /\ ~should_cancel
                             THEN wf'.pc = "render_batch"
                                  /\ wf'.calls.render = wf.calls.render + 1
                             ELSE wf'.pc = "save_depths" ]_vars

C15_Witness ==
    /\ input.skip_model_build /\ input.skip_depth_render
    /\ ~configured
    /\ failedAt = "none"
    /\ wf.calls.build = 1 /\ wf.calls.render >= 1
    /\ Done /\ wf.progress.stage = "COMPLETED" /\ wf.progress.current_step = 4

\* C16: every seat id that keys a depth map used by the run, a synthesis call, an entry
\* of image_paths or an entry of failed_seats belongs to seats_to_render (custom_seats
\* resolved against all_seats if given, else anchor_seats).
C16_ResultsInsideRenderSet ==
    /\ wf.all_depth_maps \subseteq RenderSet
    /\ \A i \in 1..Len(wf.tasks) : wf.tasks[i].seat_id \in RenderSet
    /\ DOMAIN wf.result.image_paths \subseteq RenderSet
    /\ Range(wf.result.failed_seats) \subseteq RenderSet

\* run() has left stage 3: it is in stage 4, or has returned COMPLETED from step 3 or 4
DepthStageFinished ==
    \/ wf.pc \in {"load_images", "await_tasks", "save_images"}
    \/ Done /\ wf.progress.stage = "COMPLETED" /\ wf.progress.current_step >= 3

\* C17: when the depth stage of a run has finished and no cancel has arrived, every
\* seat of seats_to_render has a depth artifact (loaded or rendered and saved), or the
\* run has ended FAILED.
C17_DepthCompleteOrFailed ==
    (DepthStageFinished /\ ~should_cancel)
        => \/ RenderSet \subseteq DOMAIN wf.depth_paths
           \/ Done /\ wf.progress.stage = "FAILED"

\* the sections generate_seats samples for the anchors, over the tiers it goes through
SampledSectionIds(all_seats) ==
    UNION {Range(SampleSections(TierSections(SelectSeq(all_seats, LAMBDA s : s.tier = tr))))
             : tr \in Range(AnchorTiers)}

\* the section of the argument with this id
SectionData(section_id) ==
    sections[CHOOSE k \in 1..Len(sections) : sections[k].section_id = section_id]

\* C18: when generate_seats returns, anchor_seats holds for each sampled section the
\* seat with row label Front and, if the section has more than one row, the seat with
\* row label Back; it holds no seat with row label Middle.
C18_AnchorsAreFrontAndBack ==
    gs.pc = "returned"
        => /\ \A sid \in SampledSectionIds(gs.all_seats) :
                /\ \E i \in 1..Len(gs.anchor_seats) :
                       gs.anchor_seats[i].id = SeatId(sid, "Front")
                /\ SectionData(sid).rows > 1
                     => \E i \in 1..Len(gs.anchor_seats) :
                            gs.anchor_seats[i].id = SeatId(sid, "Back")
           /\ \A i \in 1..Len(gs.anchor_seats) : gs.anchor_seats[i].row # "Middle"

\* C19: for every non-empty sections mapping with tiers among floor, lower, mid, upper
\* and club, generate_seats does not raise, and all_seats holds exactly the three seats
\* <section_id>_Front_1, _Middle_1 and _Back_1 of each section, at the row indices 0,
\* floor(rows/2) and rows-1: three times as many seats as sections.
C19_ThreeSeatsPerSection ==
    /\ gs.pc # "raised"
    /\ gs.pc = "returned"
         => /\ Len(gs.all_seats) = 3 * Len(sections)
            /\ \A k \in 1..Len(sections) :
                 LET sd == sections[k]
                 IN  {<<gs.all_seats[i].id, gs.all_seats[i].row_num>> :
                         i \in {j \in 1..Len(gs.all_seats) :
                                  gs.all_seats[j].section = sd.section_id}}
                       = {<<SeatId(sd.section_id, "Front"), 0>>,
                          <<SeatId(sd.section_id, "Middle"), sd.rows \div 2>>,
                          <<SeatId(sd.section_id, "Back"), sd.rows - 1>>}

\* ----- the cost counter -----

\* the depth maps rendered by this run: loaded depth maps come without a render call
RenderedByRun == IF wf.calls.render > 0 THEN wf.all_depth_maps ELSE {}

\* the cost of the calls of this run that returned a result
CostOfSuccessfulCalls ==
    (IF failedAt = "gen_seats" THEN 0 ELSE COST_seats)
        + (IF wf.calls.build > 0 /\ wf.blend_file_b64 THEN COST_blender_build ELSE 0)
        + COST_depth_render_per_seat * Cardinality(RenderedByRun)
        + CostPerImage(input.model) * wf.progress.images_generated

\* C23: at the end of a run total_cost is 1 for seat generation, 50 for the model build
\* that returned, 20 for each depth map the run rendered and the unit of the model for
\* each successful synthesis; loaded artifacts and failed calls add nothing
C23_CostCountsSuccessfulCalls ==
    Done => wf.result.total_cost = CostOfSuccessfulCalls

\* ----- GET /pipelines/{workflow_id} -----

\* desc.status.name: run() turns every exception into a returned result and a cancel is
\* a signal it returns from, so a run that has ended is a workflow that COMPLETED
WorkflowStatus(s) == IF s.pc = "done" THEN "COMPLETED" ELSE "RUNNING"

\* PipelineProgress(workflow_id, stage, current_step, total_steps, message): the other
\* fields take the defaults of the schema
StatusFallback(stage, current_step) ==
    [InitProgress EXCEPT !.stage = stage, !.current_step = current_step]

\* get_pipeline_progress: the snapshot of the query, or the fallback on the status
GetPipelineProgress(s, query_ok) ==
    IF query_ok THEN s.progress
    ELSE CASE WorkflowStatus(s) = "COMPLETED" -> StatusFallback("COMPLETED", 4)
           [] WorkflowStatus(s) = "FAILED" -> StatusFallback("FAILED", 0)
           [] WorkflowStatus(s) = "CANCELLED" -> StatusFallback("CANCELLED", 0)
           [] OTHER -> StatusFallback("PENDING", 0)

\* C24: the progress returned for a run that has ended carries the stage the run ended
\* in and counters not lower than those of the run's snapshots, whether the query
\* succeeds or the endpoint falls back to the workflow status
C24_TerminalQuery ==
    Done => \A query_ok \in BOOLEAN :
              LET r == GetPipelineProgress(wf, query_ok)
              IN  /\ r.stage = wf.progress.stage
                  /\ r.seats_generated >= wf.progress.seats_generated
                  /\ r.depth_maps_rendered >= wf.progress.depth_maps_rendered
                  /\ r.images_generated >= wf.progress.images_generated
                  /\ r.actual_cost >= wf.progress.actual_cost

\* ----- the save activities -----

\* the items handed to the save activity the run is waiting for
SaveInput == IF wf.pc = "save_depths" THEN wf.all_depth_maps ELSE wf.batch_images

\* the items of a kind held by the object store, and by local disk
Held(st, kind, place) ==
    IF kind = "save_depths"
    THEN (IF place = "remote" THEN st.remote_depth ELSE st.local_depth)
    ELSE (IF place = "remote" THEN st.remote_images ELSE st.local_images)

\* C26: when save_depth_maps_activity or save_generated_images_activity returns, the
\* returned map has a path for every seat id it was given, every item is held where its
\* path says, and that is local disk whenever the object store is not configured: a
\* failed upload costs no item
C26_PutFallsBack ==
    [][(wf.pc \in {"save_depths", "save_images"} /\ wf' # wf /\ failedAt' = "none") =>
          LET paths == IF wf.pc = "save_depths" THEN wf'.depth_paths ELSE wf'.generated
          IN  /\ SaveInput \subseteq DOMAIN paths
              /\ wf.pc = "save_depths" => DOMAIN paths = SaveInput
              /\ \A x \in SaveInput :
                   /\ paths[x] \in {"remote", "local"}
                   /\ x \in Held(store', wf.pc, paths[x])
                   /\ ~configured => paths[x] = "local"]_vars

\* both depth maps were saved, one uploaded and one written to local disk after its
\* upload failed
C26_Witness ==
    /\ configured
    /\ store.run_depth = DOMAIN wf.depth_paths
    /\ \E x, y \in DOMAIN wf.depth_paths :
         wf.depth_paths[x] = "remote" /\ wf.depth_paths[y] = "local"

\* ----- the blend file -----

\* a blend file is in the store: on the object store or on local disk
BlendInStore == store.remote_blend \/ store.local_blend

\* C27: in a run that invoked the model build, the blend file was saved before the run
\* ended COMPLETED and before the first depth-render call; and a run that ended
\* COMPLETED at stop_after_model has a blend file in the store
C27_ModelPersistedBeforeUse ==
    /\ (wf.calls.build > 0 /\ (wf.calls.render > 0 \/ (Done /\ wf.progress.stage = "COMPLETED")))
          => (store.run_blend /\ BlendInStore)
    /\ (Done /\ wf.progress.stage = "COMPLETED" /\ wf.progress.current_step = 2)
          => (input.stop_after_model /\ BlendInStore)

\* a run that built the model, saved it to local disk after a failed upload, and ended
\* COMPLETED at the stop_after_model check
C27_Witness ==
    /\ Done /\ wf.progress.stage = "COMPLETED" /\ wf.progress.current_step = 2
    /\ wf.calls.build = 1 /\ wf.calls.render = 0
    /\ configured /\ store.run_blend /\ store.local_blend

\* ----- the pending set of _generate_images_parallel -----

\* load_existing_images_activity has returned and _generate_images_parallel is running
\* or has returned
InSynthesis ==
    \/ wf.pc \in {"await_tasks", "save_images"}
    \/ Done /\ wf.progress.current_step = 4 /\ failedAt # "load_images"

\* existing: the final images on local disk that this run did not write
Existing == store.local_images \ store.run_images

Pending == wf.all_depth_maps \ Existing

\* the number of seats of seat_ids a call has been issued for so far
Launched ==
    Min(IF wf.tasks # <<>> THEN wf.batch_start + input.parallel_image_batch_size
        ELSE wf.batch_start, Len(wf.seat_ids))

\* C28: the synthesis calls are issued for the seats of keys(depth_maps) minus existing,
\* each once, in batches that are consecutive slices of at most
\* parallel_image_batch_size seats; none is issued for an existing image, and when
\* existing covers all keys no call is made and the existing paths are returned with
\* nothing in failed_items
C28_PendingSet ==
    InSynthesis =>
        /\ Range(wf.seat_ids) = Pending
        /\ Len(wf.seat_ids) = Cardinality(Pending)
        /\ Len(wf.tasks) <= input.parallel_image_batch_size
        /\ \A i \in 1..Len(wf.tasks) :
             /\ wf.tasks[i].seat_id = wf.seat_ids[wf.batch_start + i]
             /\ wf.tasks[i].seat_id \notin Existing
        /\ wf.calls.synth = Launched
        /\ (Done /\ wf.progress.stage = "COMPLETED" /\ ~should_cancel)
              => wf.calls.synth = Cardinality(Pending)
        /\ Pending = {} =>
              /\ wf.calls.synth = 0
              /\ Done /\ wf.progress.stage = "COMPLETED"
              /\ wf.result.image_paths = [x \in Existing |-> "local"]
              /\ wf.progress.failed_items = <<>>

\* a completed run that found the image of one seat and issued one call, for the other
C28_Witness ==
    /\ Done /\ wf.progress.stage = "COMPLETED" /\ wf.progress.current_step = 4
    /\ ~should_cancel
    /\ Existing # {} /\ Pending # {}
    /\ wf.calls.synth = Cardinality(Pending)

\* ----- one batch of synthesis calls -----

\* the seats of the batch in flight whose call ended with an image
BatchSucceeded == {wf.tasks[i].seat_id : i \in {j \in 1..Len(wf.tasks) : wf.tasks[j].status = "ok"}}

\* the seats of the batch in flight whose call ended with None or an error, in the
\* order of launch
BatchFailed ==
    LET bad == SelectSeq(wf.tasks, LAMBDA t : t.status \in {"none", "error"})
    IN  [i \in 1..Len(bad) |-> bad[i].seat_id]

\* the images this run generated and saved in its earlier batches
SavedEarlier == (DOMAIN wf.generated) \ Existing

\* C29: when the last task of a batch has been awaited, the images to save, the failed
\* seats, images_generated and the image cost are given by the outcome of each seat of
\* the batch alone, in whatever order the calls ended
C29_BatchOrderIndependent ==
    [][(/\ wf.pc = "await_tasks" /\ wf.next_task = Len(wf.tasks)
        /\ wf.tasks[wf.next_task].status # "running" /\ wf' # wf) =>
          LET n == Cardinality(SavedEarlier) + Cardinality(BatchSucceeded)
              f == wf'.progress.failed_items
              k == Len(f) - Len(BatchFailed)
          IN  /\ wf'.progress.images_generated = n
              /\ wf'.cost_breakdown.image_generation = n * CostPerImage(input.model)
              /\ BatchSucceeded # {} =>
                    wf'.pc = "save_images" /\ wf'.batch_images = BatchSucceeded
              /\ k >= 0
              /\ SubSeq(f, k + 1, Len(f)) = BatchFailed
              /\ \A i \in 1..k, j \in 1..Len(wf.tasks) : f[i] # wf.tasks[j].seat_id]_vars

\* a batch of two calls, the first failed and the second succeeded, has been awaited
C29_Witness ==
    /\ wf.pc = "save_images"
    /\ Len(wf.tasks) = 2
    /\ wf.tasks[1].status = "error" /\ wf.tasks[2].status = "ok"
    /\ wf.batch_images = {wf.tasks[2].seat_id}

\* ----- retries -----

\* the result of the synthesis call of seat x has been taken by `await task`
Awaited(x) ==
    ~(wf.pc = "await_tasks" /\ \E i \in wf.next_task..Len(wf.tasks) : wf.tasks[i].seat_id = x)

\* the seats whose synthesis call returned an image that the workflow has taken
SynthSucceeded == {x \in Seats : attempts[<<"synth", x>>].result = "ok" /\ Awaited(x)}

\* C21: a synthesis call makes at most 5 attempts and a failed attempt is followed by
\* another one until then; a call that returns an image after failed attempts counts as
\* one image: the seat is not in failed_items, its image is in the batch to save or
\* saved, and images_generated and the image cost count every such seat exactly once
C21_RateLimitThenRecovery ==
    /\ \A x \in Seats :
         LET a == attempts[<<"synth", x>>]
         IN  /\ a.failed <= MAX_ATTEMPTS_AI
             /\ a.result \in {"ok", "none"} => a.failed + 1 <= MAX_ATTEMPTS_AI
             /\ (a.result = "error" /\ a.last = "rate_limit") => a.failed = MAX_ATTEMPTS_AI
    /\ \A x \in SynthSucceeded :
         /\ \A i \in 1..Len(wf.progress.failed_items) : wf.progress.failed_items[i] # x
         /\ x \in wf.batch_images \/ (x \in store.run_images /\ x \in DOMAIN wf.generated)
    /\ wf.progress.images_generated = Cardinality(SynthSucceeded)
    /\ wf.cost_breakdown.image_generation = CostPerImage(input.model) * Cardinality(SynthSucceeded)

\* a completed run in which the call of a seat hit the rate limit twice and then
\* returned the image, which was saved
C21_Witness ==
    /\ Done /\ wf.progress.stage = "COMPLETED"
    /\ \E x \in Seats :
         /\ attempts[<<"synth", x>>] = [failed |-> 2, last |-> "rate_limit", result |-> "ok"]
         /\ x \in store.run_images /\ x \in DOMAIN wf.result.image_paths

\* C22: a model-build or depth-render call that fails on a configuration error is
\* attempted once and the run is FAILED; a synthesis call that fails on an
\* authentication error is attempted once and ends in error
C22_NonRetryableShortCircuit ==
    /\ \A c \in Calls :
         (c[1] # "synth" /\ attempts[c].last \in {"config", "value"}) =>
             /\ attempts[c].failed = 1
             /\ Done /\ wf.progress.stage = "FAILED"
    /\ \A x \in Seats :
         attempts[<<"synth", x>>].last = "auth" =>
             /\ attempts[<<"synth", x>>].failed = 1
             /\ attempts[<<"synth", x>>].result = "error"

\* ----- the start request -----

\* C25: every execution control of the request reaches the input of the run with the
\* value the request gave it
C25_RequestCarriesControls ==
    request.pc = "started" =>
        /\ input.stop_after_model = request.stop_after_model
        /\ input.stop_after_depths = request.stop_after_depths
        /\ input.skip_ai_generation = request.skip_ai_generation
        /\ input.skip_model_build = request.skip_model_build
        /\ input.skip_depth_render = request.skip_depth_render
        /\ input.depth_batch_size = request.depth_batch_size
        /\ input.parallel_image_batch_size = request.parallel_image_batch_size

\* C30: the sections given to seat generation are the input sections whose id is in
\* selected_section_ids when that is provided, and all input sections only when it is
\* absent
C30_SectionFilter ==
    (request.pc = "started" /\ gs.pc # "idle") =>
        sections = IF input.selected_section_ids.present
                   THEN SelectSeq(input.sections,
                                  LAMBDA item : item.section_id \in input.selected_section_ids.ids)
                   ELSE input.sections

\* ----- the depth batches -----

\* batch = seats_to_render[batch_idx:batch_idx + depth_batch_size], the batch in flight
DepthBatch == Slice(wf.seats_to_render, wf.batch_idx, input.depth_batch_size)

\* C31: the render calls are made one after the other for consecutive batches of at
\* most depth_batch_size seats of seats_to_render, the next one only when the cancel
\* flag is not set, and when a batch returns depth_maps_rendered has grown by the size
\* of that batch
C31_DepthBatchesInOrder ==
    [][(wf.pc = "render_batch" /\ wf' # wf /\ failedAt' = "none") =>
          /\ Len(DepthBatch) >= 1 /\ Len(DepthBatch) <= input.depth_batch_size
          /\ wf'.batch_idx = wf.batch_idx + input.depth_batch_size
          /\ wf'.seats_to_render = wf.seats_to_render
          /\ wf'.pc = "render_batch" =>
                /\ ~should_cancel
                /\ wf'.calls.render = wf.calls.render + 1
                /\ wf'.batch_idx < Len(wf.seats_to_render)
          /\ wf'.pc # "render_batch" => wf'.calls.render = wf.calls.render
          /\ wf'.progress.depth_maps_rendered
                = wf.progress.depth_maps_rendered + Len(DepthBatch)]_vars

\* ----- the returned PipelineResult -----

\* C32: when run() has returned, success is true exactly when the stage of the progress
\* is COMPLETED, and error_message is set exactly when success is false
C32_SuccessMatchesStage ==
    Done =>
        /\ wf.result.success <=> (wf.progress.stage = "COMPLETED")
        /\ (wf.result.error_message # "none") <=> ~wf.result.success

\* a run that returned the cancelled result: no success, stage not COMPLETED, message set
C32_Witness ==
    /\ Done /\ should_cancel
    /\ ~wf.result.success
    /\ wf.result.error_message = "Cancelled by user"
    /\ wf.progress.stage \notin {"COMPLETED", "FAILED"}

\* ----- cancel -----

\* C33: once the cancel flag is set in a run that has started, no further seat
\* generation, model build, depth render or synthesis call is started
C33_NoRemoteWorkAfterCancel ==
    [][(should_cancel /\ wf.pc # "start") => wf'.calls = wf.calls]_vars

\* C34: when run() has returned, the depth_maps_rendered and images_generated of the
\* result are those of the progress, and failed_seats is failed_items
C34_ResultAgreesWithProgress ==
    Done =>
        /\ wf.result.depth_maps_rendered = wf.progress.depth_maps_rendered
        /\ wf.result.images_generated = wf.progress.images_generated
        /\ wf.result.failed_seats = wf.progress.failed_items

\* ----- the outcome of a pending seat -----

\* the seats this run has an image of: awaited in the batch in flight, or saved
GeneratedByRun == wf.batch_images \cup SavedEarlier

FailedItems == Range(wf.progress.failed_items)

\* C35: in the image stage no seat is both in failed_items and among the images the run
\* generated, no seat is in failed_items twice, only pending seats have an outcome, and
\* when the stage has finished without cancel and without a failed save every pending
\* seat is in exactly one of the two
C35_OneOutcomePerSeat ==
    InSynthesis =>
        /\ FailedItems \cap GeneratedByRun = {}
        /\ Cardinality(FailedItems) = Len(wf.progress.failed_items)
        /\ FailedItems \cup GeneratedByRun \subseteq Pending
        /\ (Done /\ wf.progress.stage = "COMPLETED" /\ ~should_cancel)
              => FailedItems \cup SavedEarlier = Pending

\* a completed run with one pending seat failed and the other generated and saved
C35_Witness ==
    /\ Done /\ wf.progress.stage = "COMPLETED" /\ wf.progress.current_step = 4
    /\ ~should_cancel
    /\ FailedItems # {} /\ SavedEarlier # {}
    /\ FailedItems \cup SavedEarlier = Pending

\* ----- the cost breakdown -----

\* sum(cost_breakdown.values())
SumOfBreakdown(cb) == cb.seats + cb.model_build + cb.depth_rendering + cb.image_generation

\* C36: in every state of a run actual_cost is the sum of the entries of
\* cost_breakdown, and the total_cost of a returned result is the sum of its
\* cost_breakdown
C36_BreakdownSumsToTotal ==
    /\ wf.progress.actual_cost = SumOfBreakdown(wf.cost_breakdown)
    /\ Done => wf.result.total_cost = SumOfBreakdown(wf.result.cost_breakdown)

\* a finished run that paid for seats, a build, two render batches and an image
C36_Witness ==
    /\ Done
    /\ wf.result.cost_breakdown.seats > 0
    /\ wf.result.cost_breakdown.model_build > 0
    /\ wf.calls.render = 2
    /\ wf.result.cost_breakdown.depth_rendering = 2 * COST_depth_render_per_seat
    /\ wf.result.cost_breakdown.image_generation > 0

\* ----- the workers -----

\* the entry points that start a Worker with workflows=[VenuePipelineWorkflow]
WorkerEntryPoints == {"run_worker", "temporal_worker"}

\* activities=[...] of the Worker of an entry point
RegisteredActivities(entry) ==
    {"generate_seats_activity", "build_venue_model_activity", "render_depth_maps_activity",
     "generate_ai_image_activity", "save_seats_json_activity", "save_blend_file_activity",
     "save_depth_maps_activity", "save_generated_images_activity",
     "load_existing_images_activity"}
        \cup (IF entry = "temporal_worker"
              THEN {"load_existing_blend_activity", "load_existing_depth_maps_activity"}
              ELSE {})

\* the activity run() or _generate_images_parallel() has scheduled at a position
ScheduledActivity(pc) ==
    CASE pc = "gen_seats" -> "generate_seats_activity"
      [] pc = "save_seats" -> "save_seats_json_activity"
      [] pc = "load_blend" -> "load_existing_blend_activity"
      [] pc = "build_model" -> "build_venue_model_activity"
      [] pc = "save_blend" -> "save_blend_file_activity"
      [] pc = "load_depths" -> "load_existing_depth_maps_activity"
      [] pc = "render_batch" -> "render_depth_maps_activity"
      [] pc = "save_depths" -> "save_depth_maps_activity"
      [] pc = "load_images" -> "load_existing_images_activity"
      [] pc = "await_tasks" -> "generate_ai_image_activity"
      [] pc = "save_images" -> "save_generated_images_activity"
      [] OTHER -> "none"

\* C37: whatever activity a run has scheduled is registered by the Worker of every
\* entry point that registers the workflow
C37_ScheduledActivityIsServed ==
    ScheduledActivity(wf.pc) # "none" =>
        \A entry \in WorkerEntryPoints : ScheduledActivity(wf.pc) \in RegisteredActivities(entry)
====
